---- MODULE Spec2Model ----
(***************************************************************************)
(* The account slice of the redux-intro banking example: the createSlice   *)
(* reducer of src/features/accounts/accountSlice.js, its action creators,  *)
(* the deposit thunk, and the classic switch reducer of store-v1.          *)
(***************************************************************************)
EXTENDS Integers, Sequences, FiniteSets, TLC

(***************************************************************************)
(* Bounds of the model.                                                    *)
(***************************************************************************)
MaxHi == 1        \* |hi| of a stored balance
MaxLo == 4        \* |lo| of a stored balance
MaxPending == 1   \* currency lookups in flight
MaxTrace == 3     \* dispatches recorded by TraceSpec

(***************************************************************************)
(* JavaScript numbers.  balance, loan and every amount are IEEE-754        *)
(* doubles.  The model keeps the doubles of the form hi * 2^53 + lo with   *)
(* small integers hi, lo: below 2^53 every integer is a double, from 2^53  *)
(* on only the multiples of 2, from 2^54 on only the multiples of 4, ...   *)
(* `+`, `-` and `*` return the exact result rounded to the nearest double, *)
(* ties to the even mantissa.                                              *)
(***************************************************************************)
Num(h, l) == [hi |-> h, lo |-> l]

Zero == Num(0, 0)

RECURSIVE Log2Floor(_)
Log2Floor(n) == IF n <= 1 THEN 0 ELSE 1 + Log2Floor(n \div 2)

RECURSIVE Pow2(_)
Pow2(n) == IF n = 0 THEN 1 ELSE 2 * Pow2(n - 1)

\* distance between neighbouring doubles around the value h * 2^53 + l >= 0
UlpPos(h, l) ==
    LET b == IF l < 0 THEN h - 1 ELSE h
    IN  IF b <= 0 THEN 1 ELSE Pow2(Log2Floor(b) + 1)

Ulp(h, l) ==
    IF h > 0 \/ (h = 0 /\ l >= 0) THEN UlpPos(h, l) ELSE UlpPos(-h, -l)

\* the exact value h * 2^53 + l rounded to the nearest double
RoundNum(h, l) ==
    LET s    == Ulp(h, l)
        r    == l % s
        down == l - r
        up   == down + s
    IN  IF r = 0 THEN Num(h, l)
        ELSE IF 2 * r < s THEN Num(h, down)
        ELSE IF 2 * r > s THEN Num(h, up)
        ELSE IF (down \div s) % 2 = 0 THEN Num(h, down)
        ELSE Num(h, up)

Add(a, b) == RoundNum(a.hi + b.hi, a.lo + b.lo)

Sub(a, b) == RoundNum(a.hi - b.hi, a.lo - b.lo)

\* l rounded to the nearest multiple of s, ties to the even multiple
RoundTo(l, s) ==
    LET r    == l % s
        down == l - r
        up   == down + s
    IN  IF r = 0 THEN l
        ELSE IF 2 * r < s THEN down
        ELSE IF 2 * r > s THEN up
        ELSE IF (down \div s) % 2 = 0 THEN down
        ELSE up

\* an exchange rate: the double (num * 2^52 + err) / (den * 2^52)
Rate(n, d, e) == [num |-> n, den |-> d, err |-> e]

\* the double written 1.1, which is 4953959590107546 / 2^52
Rate11 == Rate(11, 10, 4)

\* rate * amount.  For a whole rate the product is exact before rounding.
\* For a fractional rate and an amount k * den below 2^53 the exact
\* product is A + B / 2^52 with A = num * k and B = err * k; the doubles
\* around it are spaced 2^Log2Floor(A) / 2^52 apart.  A product that is
\* not a whole number keeps its fraction, in units of 2^-52, in frac.
Mul(rate, a) ==
    IF rate.den = 1 /\ rate.err = 0
    THEN RoundNum(rate.num * a.hi, rate.num * a.lo)
    ELSE LET k == a.lo \div rate.den
             A == rate.num * k
             B == RoundTo(rate.err * k, Pow2(Log2Floor(A)))
         IN  IF B = 0 THEN Num(0, A)
             ELSE [hi |-> 0, lo |-> A, frac |-> B]

Gt0(a) == a.hi > 0 \/ (a.hi = 0 /\ a.lo > 0)

Lt0(a) == a.hi < 0 \/ (a.hi = 0 /\ a.lo < 0)

InRange(a) == a.hi >= -MaxHi /\ a.hi <= MaxHi /\ a.lo >= -MaxLo /\ a.lo <= MaxLo

(***************************************************************************)
(* Inputs.                                                                 *)
(***************************************************************************)
Amounts == {Num(0, -1), Num(0, 1), Num(0, 2), Num(1, 0)}

Purposes == {"A", "B"}

Currencies == {"USD", "EUR"}

Rates == {Rate(1, 1, 0), Rate(2, 1, 0)}

Undefined == "undefined"

\* property read obj[key] of a JavaScript object
Get(obj, key) == IF key \in DOMAIN obj THEN obj[key] ELSE Undefined

(***************************************************************************)
(* accountSlice.js                                                         *)
(***************************************************************************)
initialState ==
    [balance |-> Zero, loan |-> Zero, loanPurpose |-> "", isLoading |-> FALSE]

\* mutant: the deposit of store-v1, which leaves isLoading alone
reducers_deposit_keepsLoading(state, action) ==
    [state EXCEPT !.balance = Add(state.balance, action.payload)]

reducers_deposit(state, action) ==
    [state EXCEPT !.balance = Add(state.balance, action.payload),
                  !.isLoading = FALSE]

\* mutant: the flag reset of deposit copied into withdraw
reducers_withdraw_clearsLoading(state, action) ==
    [state EXCEPT !.balance = Sub(state.balance, action.payload),
                  !.isLoading = FALSE]

\* mutant: a withdrawal refused when it exceeds the balance
reducers_withdraw_checked(state, action) ==
    IF Lt0(Sub(state.balance, action.payload)) THEN state
    ELSE [state EXCEPT !.balance = Sub(state.balance, action.payload)]

reducers_withdraw(state, action) ==
    [state EXCEPT !.balance = Sub(state.balance, action.payload)]

\* mutant: the payload key of the classic action creator
requestLoan_prepare_purposeKey(amount, loanPurpose) ==
    [payload |-> [amount |-> amount, purpose |-> loanPurpose]]

requestLoan_prepare(amount, loanPurpose) ==
    [payload |-> [amount |-> amount, loanPurpose |-> loanPurpose]]

\* mutant: no guard on an outstanding loan
requestLoan_reducer_noGuard(state, action) ==
    [state EXCEPT !.balance = Add(state.balance, Get(action.payload, "amount")),
                  !.loan = Get(action.payload, "amount"),
                  !.loanPurpose = Get(action.payload, "loanPurpose")]

\* mutant: the guard protects the amounts only, the purpose is overwritten
requestLoan_reducer_relabel(state, action) ==
    IF Gt0(state.loan)
    THEN [state EXCEPT !.loanPurpose = Get(action.payload, "loanPurpose")]
    ELSE [state EXCEPT !.balance = Add(state.balance, Get(action.payload, "amount")),
                       !.loan = Get(action.payload, "amount"),
                       !.loanPurpose = Get(action.payload, "loanPurpose")]

\* mutant: the proceeds reach the balance, the loan is not recorded
requestLoan_reducer_torn(state, action) ==
    IF Gt0(state.loan) THEN state
    ELSE [state EXCEPT !.balance = Add(state.balance, Get(action.payload, "amount"))]

requestLoan_reducer(state, action) ==
    IF Gt0(state.loan) THEN state
    ELSE [state EXCEPT !.balance = Add(state.balance, Get(action.payload, "amount")),
                       !.loan = Get(action.payload, "amount"),
                       !.loanPurpose = Get(action.payload, "loanPurpose")]

\* mutant: the loan is cleared but not taken out of the balance
reducers_payLoan_noRefund(state) ==
    [state EXCEPT !.loan = Zero, !.loanPurpose = ""]

\* mutant: repayment refused when the balance does not cover the loan
reducers_payLoan_checked(state) ==
    IF Lt0(Sub(state.balance, state.loan)) THEN state
    ELSE [state EXCEPT !.balance = Sub(state.balance, state.loan),
                       !.loan = Zero,
                       !.loanPurpose = ""]

\* mutant: a repayment the balance does not cover signals an error
reducers_payLoan_throws(state) ==
    IF Lt0(Sub(state.balance, state.loan))
    THEN [balance |-> state.balance,
          loan |-> state.loan,
          loanPurpose |-> state.loanPurpose,
          isLoading |-> state.isLoading,
          error |-> "Insufficient funds"]
    ELSE [state EXCEPT !.balance = Sub(state.balance, state.loan),
                       !.loan = Zero,
                       !.loanPurpose = ""]

\* mutant: the loan is taken out of the balance but stays on the account
reducers_payLoan_keepsLoan(state) ==
    [state EXCEPT !.balance = Sub(state.balance, state.loan),
                  !.loanPurpose = ""]

reducers_payLoan(state) ==
    [state EXCEPT !.balance = Sub(state.balance, state.loan),
                  !.loan = Zero,
                  !.loanPurpose = ""]

\* mutant: the flag is set on a copy of the initial state
reducers_convertingCurrency_fresh(state) ==
    [initialState EXCEPT !.isLoading = TRUE]

\* mutant: the flag is not set
reducers_convertingCurrency_noop(state) == state

reducers_convertingCurrency(state) ==
    [state EXCEPT !.isLoading = TRUE]

\* mutant: an unknown action type resets the slice
accountReducer_resets(state, action) ==
    CASE action.type = "account/deposit" -> reducers_deposit(state, action)
      [] action.type = "account/withdraw" -> reducers_withdraw(state, action)
      [] action.type = "account/requestLoan" -> requestLoan_reducer(state, action)
      [] action.type = "account/payLoan" -> reducers_payLoan(state)
      [] action.type = "account/convertingCurrency" -> reducers_convertingCurrency(state)
      [] OTHER -> initialState

\* accountSlice.reducer: the case reducer of the action's type, or the
\* state as it is when no case reducer has that type
accountReducer(state, action) ==
    CASE action.type = "account/deposit" -> reducers_deposit(state, action)
      [] action.type = "account/withdraw" -> reducers_withdraw(state, action)
      [] action.type = "account/requestLoan" -> requestLoan_reducer(state, action)
      [] action.type = "account/payLoan" -> reducers_payLoan(state)
      [] action.type = "account/convertingCurrency" -> reducers_convertingCurrency(state)
      [] OTHER -> state

\* accountSlice.actions
withdraw(amount) == [type |-> "account/withdraw", payload |-> amount]

requestLoan(amount, loanPurpose) ==
    [type |-> "account/requestLoan",
     payload |-> requestLoan_prepare(amount, loanPurpose).payload]

payLoan == [type |-> "account/payLoan"]

\* mutant: no shortcut for "USD", every deposit is converted
deposit_alwaysThunk(amount, currency) ==
    [thunk |-> [amount |-> amount, currency |-> currency]]

\* export function deposit(amount, currency): a plain action for "USD",
\* otherwise the thunk, kept as the values it closes over
deposit(amount, currency) ==
    IF currency = "USD"
    THEN [type |-> "account/deposit", payload |-> amount]
    ELSE [thunk |-> [amount |-> amount, currency |-> currency]]

\* the two dispatches of the thunk
thunk_convertingCurrency == [type |-> "account/convertingCurrency"]

\* mutant: the amount is deposited as entered, without the rate
thunk_deposit_unconverted(rate, amount) ==
    [type |-> "account/deposit", payload |-> amount]

\* mutant: the final dispatch carries a type the reducer does not know
thunk_deposit_mistyped(rate, amount) ==
    [type |-> "account/depositConverted", payload |-> Mul(rate, amount)]

thunk_deposit(rate, amount) ==
    [type |-> "account/deposit", payload |-> Mul(rate, amount)]

(***************************************************************************)
(* store-v1: the classic reducer.                                          *)
(***************************************************************************)
initialStateV1 == [balance |-> Zero, loan |-> Zero, loanPurpose |-> ""]

reducer(state, action) ==
    CASE action.type = "account/deposit" ->
           [state EXCEPT !.balance = Add(state.balance, action.payload)]
      [] action.type = "account/withdraw" ->
           [state EXCEPT !.balance = Sub(state.balance, action.payload)]
      [] action.type = "account/requestLoan" ->
           IF Gt0(state.loan) THEN state
           ELSE [state EXCEPT !.balance = Add(state.balance, Get(action.payload, "amount")),
                              !.loan = Get(action.payload, "amount"),
                              !.loanPurpose = Get(action.payload, "purpose")]
      [] action.type = "account/payLoan" ->
           [state EXCEPT !.balance = Sub(state.balance, state.loan),
                         !.loan = Zero,
                         !.loanPurpose = ""]
      [] OTHER -> state

(***************************************************************************)
(* accountSlice.js, the classic reducer and action creator kept in the     *)
(* comment at the end of the file.                                         *)
(***************************************************************************)
classicAccountReducer(state, action) ==
    CASE action.type = "account/deposit" ->
           [state EXCEPT !.balance = Add(state.balance, action.payload),
                         !.isLoading = FALSE]
      [] action.type = "account/withdraw" ->
           [state EXCEPT !.balance = Sub(state.balance, action.payload)]
      [] action.type = "account/requestLoan" ->
           IF Gt0(state.loan) THEN state
           ELSE [state EXCEPT !.balance = Add(state.balance, Get(action.payload, "amount")),
                              !.loan = Get(action.payload, "amount"),
                              !.loanPurpose = Get(action.payload, "purpose")]
      [] action.type = "account/payLoan" ->
           [state EXCEPT !.balance = Sub(state.balance, state.loan),
                         !.loan = Zero,
                         !.loanPurpose = ""]
      [] action.type = "account/convertingCurrency" ->
           [state EXCEPT !.isLoading = TRUE]
      [] OTHER -> state

classicRequestLoan(amount, purpose) ==
    [type |-> "account/requestLoan",
     payload |-> [amount |-> amount, purpose |-> purpose]]

(***************************************************************************)
(* The customer slice and the root reducer of the store.                   *)
(***************************************************************************)
initialStateCustomer == [fullName |-> "", nationalID |-> "", createdAt |-> ""]

customerReducer(state, action) ==
    CASE action.type = "customer/createCustomer" ->
           [fullName |-> action.payload.fullName,
            nationalID |-> action.payload.nationalID,
            createdAt |-> action.payload.createdAt]
      [] OTHER -> state

\* mutant: the customer reducer is run on its initial state at every dispatch
rootReducer_freshCustomer(state, action) ==
    [account |-> accountReducer(state.account, action),
     customer |-> customerReducer(initialStateCustomer, action)]

\* configureStore({ reducer: { account, customer } })
rootReducer(state, action) ==
    [account |-> accountReducer(state.account, action),
     customer |-> customerReducer(state.customer, action)]

(***************************************************************************)
(* The store.                                                              *)
(***************************************************************************)
VARIABLES
    account,   \* store.getState().account
    prev,      \* the account slice before the last dispatch
    last,      \* the last action the reducer was run with
    accepted,  \* the requestLoan action whose loan is outstanding, if any
    pending,   \* thunks awaiting their currency lookup
    step,      \* what the last step of the program was
    trace,     \* the actions dispatched so far (TraceSpec only)
    legacy,    \* store.getState() of store-v1
    script,    \* the amounts and the purpose the store-v1 script dispatches
    pc,        \* the number of dispatches the script has made
    selected,  \* the currency state of AccountOperations
    customer   \* store.getState().customer

scriptVars == <<legacy, script, pc>>

vars ==
    <<account, prev, last, accepted, pending, step, trace, legacy, script, pc,
      selected, customer>>

NoAction == [type |-> "@@INIT"]

\* the dispatches of store-v1: deposit 500, withdraw 200, request a loan of
\* 100 to "Buy a Car", pay the loan
Scenario ==
    [deposit |-> Num(0, 500), withdraw |-> Num(0, 200),
     loan |-> Num(0, 100), purpose |-> "Buy a Car"]

\* an action of another slice, which the store hands to every reducer
customerAction == [type |-> "customer/createCustomer"]

\* the plain actions a producer may dispatch
Actions ==
    {[type |-> "account/deposit", payload |-> a] : a \in Amounts}
      \cup {withdraw(a) : a \in Amounts}
      \cup {requestLoan(a, p) : a \in Amounts, p \in Purposes}
      \cup {payLoan, thunk_convertingCurrency, customerAction}

Init ==
    /\ account = initialState
    /\ prev = initialState
    /\ last = NoAction
    /\ accepted = NoAction
    /\ pending = <<>>
    /\ step = [op |-> "init"]
    /\ trace = <<>>
    /\ legacy = initialStateV1
    /\ script = Scenario
    /\ pc = 0
    /\ selected = "USD"
    /\ customer = initialStateCustomer

\* mutant: a withdrawal is held back while a currency lookup is outstanding
Apply_seesPending(a) ==
    /\ account' = IF pending # <<>> /\ a.type = "account/withdraw"
                  THEN account
                  ELSE accountReducer(account, a)
    /\ prev' = account
    /\ last' = a
    /\ accepted' = accepted

\* the store runs the reducer with action a and keeps what it returns
Apply(a) ==
    /\ account' = accountReducer(account, a)
    /\ prev' = account
    /\ last' = a
    /\ accepted' =
         IF a.type = "account/requestLoan" /\ ~Gt0(account.loan)
                                           /\ Gt0(accountReducer(account, a).loan)
         THEN a
         ELSE IF a.type = "account/payLoan" THEN NoAction
         ELSE accepted

\* store.dispatch(action) of a plain action
Reduce(a) ==
    /\ InRange(accountReducer(account, a).balance)
    /\ Apply(a)

Dispatch(a) ==
    /\ Reduce(a)
    /\ step' = [op |-> "dispatch"]
    /\ UNCHANGED <<pending, trace, scriptVars, customer, selected>>

\* store.dispatch(d) of what deposit(amount, currency) returned: a plain
\* action goes to the reducer; a thunk is run by the thunk middleware up to
\* its first await, that is, it dispatches convertingCurrency and issues
\* the lookup
DispatchProduced(d) ==
    IF "thunk" \in DOMAIN d
    THEN /\ Len(pending) < MaxPending
         /\ Reduce(thunk_convertingCurrency)
         /\ pending' = Append(pending, d.thunk)
    ELSE /\ Reduce(d)
         /\ UNCHANGED pending

\* store.dispatch(deposit(amount, currency))
DispatchDeposit(amount, currency) ==
    /\ DispatchProduced(deposit(amount, currency))
    /\ step' = [op |-> "deposit", amount |-> amount, currency |-> currency]
    /\ UNCHANGED <<trace, scriptVars, customer, selected>>

Remove(s, i) == SubSeq(s, 1, i - 1) \o SubSeq(s, i + 1, Len(s))

\* the lookup of pending thunk i answers with data.rates.USD = rate
FetchResolve(i, rate) ==
    /\ i \in 1..Len(pending)
    /\ Reduce(thunk_deposit(rate, pending[i].amount))
    /\ pending' = Remove(pending, i)
    /\ step' = [op |-> "resolve", amount |-> pending[i].amount, rate |-> rate]
    /\ UNCHANGED <<trace, scriptVars, customer, selected>>

\* the lookup of pending thunk i fails: the thunk ends with a rejected
\* promise and dispatches nothing more
FetchReject(i) ==
    /\ i \in 1..Len(pending)
    /\ pending' = Remove(pending, i)
    /\ step' = [op |-> "reject"]
    /\ UNCHANGED <<account, prev, last, accepted, trace, scriptVars, customer, selected>>

Next ==
    \/ \E a \in Actions : Dispatch(a)
    \/ \E amount \in Amounts, currency \in Currencies : DispatchDeposit(amount, currency)
    \/ \E i \in 1..MaxPending, rate \in Rates : FetchResolve(i, rate)
    \/ \E i \in 1..MaxPending : FetchReject(i)

Spec == Init /\ [][Next]_vars

(***************************************************************************)
(* TraceSpec: plain dispatches from the initial state, with the sequence   *)
(* of dispatched actions kept.                                             *)
(***************************************************************************)
\* a dispatch is recorded while the trace has room for it and for the
\* deposits of the lookups that are outstanding
Traced(a) ==
    /\ Len(trace) + Len(pending) < MaxTrace
    /\ Apply(a)
    /\ trace' = Append(trace, a)
    /\ step' = [op |-> "dispatch"]
    /\ UNCHANGED <<pending, scriptVars, customer, selected>>

TraceNext == \E a \in Actions : Traced(a)

TraceSpec == Init /\ [][TraceNext]_vars

(***************************************************************************)
(* AsyncTraceSpec: deposits and withdrawals interleaved with the deposit   *)
(* thunk.  trace keeps the plain actions dispatched and the deposits the   *)
(* deferred work dispatches when its lookup answers.                       *)
(***************************************************************************)
AsyncStart(amount, currency) ==
    /\ Len(trace) + Len(pending) < MaxTrace
    /\ "thunk" \in DOMAIN deposit(amount, currency)
    /\ Apply(thunk_convertingCurrency)
    /\ pending' = Append(pending, deposit(amount, currency).thunk)
    /\ step' = [op |-> "deposit", amount |-> amount, currency |-> currency]
    /\ UNCHANGED <<trace, scriptVars, customer, selected>>

AsyncResolve(i, rate) ==
    /\ Len(trace) < MaxTrace
    /\ i \in 1..Len(pending)
    /\ Apply(thunk_deposit(rate, pending[i].amount))
    /\ trace' = Append(trace, thunk_deposit(rate, pending[i].amount))
    /\ pending' = Remove(pending, i)
    /\ step' = [op |-> "resolve", amount |-> pending[i].amount, rate |-> rate]
    /\ UNCHANGED <<scriptVars, customer, selected>>

\* the deposits and withdrawals of the other producers
Transfers == {a \in Actions : a.type \in {"account/deposit", "account/withdraw"}}

AsyncTraceNext ==
    \/ \E a \in Transfers : Traced(a)
    \/ \E amount \in Amounts, currency \in Currencies : AsyncStart(amount, currency)
    \/ \E i \in 1..MaxTrace, rate \in Rates : AsyncResolve(i, rate)

AsyncTraceSpec == Init /\ [][AsyncTraceNext]_vars

(***************************************************************************)
(* ConversionsSpec: non-USD deposits only, several lookups outstanding at  *)
(* once, each answering or failing in any order.                           *)
(***************************************************************************)
ConversionsNext ==
    \/ \E amount \in Amounts, currency \in Currencies : AsyncStart(amount, currency)
    \/ \E i \in 1..MaxTrace, rate \in Rates : AsyncResolve(i, rate)
    \/ \E i \in 1..MaxTrace : FetchReject(i)

ConversionsSpec == Init /\ [][ConversionsNext]_vars

(***************************************************************************)
(* LiveSpec: AsyncTraceSpec in which every lookup answers: a thunk whose   *)
(* lookup is outstanding is eventually resumed.                            *)
(***************************************************************************)
LiveSpec ==
    /\ Init
    /\ [][AsyncTraceNext]_vars
    /\ WF_vars(\E i \in 1..MaxTrace, rate \in Rates : AsyncResolve(i, rate))

(***************************************************************************)
(* CombinedSpec: plain dispatches of account and customer actions on the   *)
(* store of both slices.                                                   *)
(***************************************************************************)
CustomerActions ==
    {[type |-> "customer/createCustomer",
      payload |-> [fullName |-> n, nationalID |-> "1", createdAt |-> "t"]] :
        n \in {"Ann", "Bob"}}

CombinedDispatch(a) ==
    /\ Reduce(a)
    /\ account' = rootReducer([account |-> account, customer |-> customer], a).account
    /\ customer' = rootReducer([account |-> account, customer |-> customer], a).customer
    /\ step' = [op |-> "dispatch"]
    /\ UNCHANGED <<pending, trace, scriptVars, selected>>

CombinedNext == \E a \in (Actions \ {customerAction}) \cup CustomerActions : CombinedDispatch(a)

CombinedSpec == Init /\ [][CombinedNext]_vars

(***************************************************************************)
(* ScriptSpec: the four dispatches of store-v1, made on store-v1 with the  *)
(* action objects of the script and on the slice store with the actions of *)
(* its action creators, for a range of amounts and purposes.               *)
(***************************************************************************)
Scripts ==
    [deposit : {Num(0, 500), Num(0, 2), Num(1, 0)},
     withdraw : {Num(0, 200), Num(0, 1)},
     loan : {Num(0, 100), Num(0, -1), Num(1, 0)},
     purpose : {"Buy a Car", "A"}]

\* the n-th action object store-v1 dispatches
ScriptAction(n) ==
    CASE n = 1 -> [type |-> "account/deposit", payload |-> script.deposit]
      [] n = 2 -> [type |-> "account/withdraw", payload |-> script.withdraw]
      [] n = 3 -> [type |-> "account/requestLoan",
                   payload |-> [amount |-> script.loan, purpose |-> script.purpose]]
      [] n = 4 -> [type |-> "account/payLoan"]

\* the same dispatch built with the action creators of the slice
SliceAction(n) ==
    CASE n = 1 -> deposit(script.deposit, "USD")
      [] n = 2 -> withdraw(script.withdraw)
      [] n = 3 -> requestLoan(script.loan, script.purpose)
      [] n = 4 -> payLoan

ScriptInit ==
    /\ account = initialState
    /\ prev = initialState
    /\ last = NoAction
    /\ accepted = NoAction
    /\ pending = <<>>
    /\ step = [op |-> "init"]
    /\ trace = <<>>
    /\ legacy = initialStateV1
    /\ script \in Scripts
    /\ pc = 0
    /\ selected = "USD"
    /\ customer = initialStateCustomer

ScriptStep ==
    /\ pc < 4
    /\ legacy' = reducer(legacy, ScriptAction(pc + 1))
    /\ Apply(SliceAction(pc + 1))
    /\ pc' = pc + 1
    /\ step' = [op |-> "dispatch"]
    /\ UNCHANGED <<pending, trace, script, selected, customer>>

ScriptNext == ScriptStep

ScriptSpec == ScriptInit /\ [][ScriptNext]_vars

(***************************************************************************)
(* UISpec: the store driven by the AccountOperations form only.  The text  *)
(* fields are the arguments of the handlers; the currency of the select is *)
(* kept in selected because handleDeposit overwrites it.                   *)
(***************************************************************************)
\* useState(""): a field nobody typed in
Empty == [empty |-> TRUE]

\* the values of a number field: "" or +e.target.value
FieldValues == {Empty, Zero} \cup Amounts

PurposeValues == {""} \cup Purposes

Options == {"USD", "EUR", "GBP"}

\* !value is false, for the value of a number field and for a string
Truthy(value) == value # Empty /\ value # Zero

TruthyString(value) == value # ""

Less(a, b) == a.hi < b.hi \/ (a.hi = b.hi /\ a.lo < b.lo)

\* the option the select shows: the one whose value is the currency state,
\* the first one when there is none
Displayed == IF selected \in Options THEN selected ELSE "USD"

\* a handler that threw before its dispatch: the catch block only logs
Caught(op) ==
    /\ step' = [op |-> op, dispatched |-> FALSE]
    /\ UNCHANGED <<account, prev, last, accepted, pending, selected>>

Dispatched(op) == step' = [op |-> op, dispatched |-> TRUE]

DepositDisabled_never == FALSE

\* <button onClick={handleDeposit} disabled={isLoading}>
DepositDisabled == account.isLoading

\* mutant: the handler runs although the button is disabled
handleDeposit_whileLoading(depositAmount) ==
    /\ IF ~Truthy(depositAmount)
       THEN Caught("handleDeposit")
       ELSE /\ DispatchProduced(deposit(depositAmount, selected))
            /\ selected' = ""
            /\ Dispatched("handleDeposit")
    /\ UNCHANGED <<trace, scriptVars, customer>>

handleDeposit(depositAmount) ==
    /\ ~DepositDisabled
    /\ IF ~Truthy(depositAmount)
       THEN Caught("handleDeposit")
       ELSE /\ DispatchProduced(deposit(depositAmount, selected))
            /\ selected' = ""
            /\ Dispatched("handleDeposit")
    /\ UNCHANGED <<trace, scriptVars, customer>>

\* mutant: the handler leaves the balance check to the reducer
handleWithdrawal_unchecked(withdrawalAmount) ==
    /\ IF ~Truthy(withdrawalAmount)
       THEN Caught("handleWithdrawal")
       ELSE /\ Reduce(withdraw(withdrawalAmount))
            /\ Dispatched("handleWithdrawal")
            /\ UNCHANGED <<pending, selected>>
    /\ UNCHANGED <<trace, scriptVars, customer>>

handleWithdrawal(withdrawalAmount) ==
    /\ IF ~Truthy(withdrawalAmount) \/ Less(account.balance, withdrawalAmount)
       THEN Caught("handleWithdrawal")
       ELSE /\ Reduce(withdraw(withdrawalAmount))
            /\ Dispatched("handleWithdrawal")
            /\ UNCHANGED <<pending, selected>>
    /\ UNCHANGED <<trace, scriptVars, customer>>

\* mutant: the handler leaves the loan check to the reducer
handleRequestLoan_noLoanCheck(loanAmount, loanPurpose) ==
    /\ IF ~Truthy(loanAmount) \/ ~TruthyString(loanPurpose)
       THEN Caught("handleRequestLoan")
       ELSE /\ Reduce(requestLoan(loanAmount, loanPurpose))
            /\ Dispatched("handleRequestLoan")
            /\ UNCHANGED <<pending, selected>>
    /\ UNCHANGED <<trace, scriptVars, customer>>

\* mutant: the handler accepts an empty purpose
handleRequestLoan_noPurposeCheck(loanAmount, loanPurpose) ==
    /\ IF ~Truthy(loanAmount) \/ Gt0(account.loan)
       THEN Caught("handleRequestLoan")
       ELSE /\ Reduce(requestLoan(loanAmount, loanPurpose))
            /\ Dispatched("handleRequestLoan")
            /\ UNCHANGED <<pending, selected>>
    /\ UNCHANGED <<trace, scriptVars, customer>>

handleRequestLoan(loanAmount, loanPurpose) ==
    /\ IF ~Truthy(loanAmount) \/ ~TruthyString(loanPurpose) \/ Gt0(account.loan)
       THEN Caught("handleRequestLoan")
       ELSE /\ Reduce(requestLoan(loanAmount, loanPurpose))
            /\ Dispatched("handleRequestLoan")
            /\ UNCHANGED <<pending, selected>>
    /\ UNCHANGED <<trace, scriptVars, customer>>

handlePayLoan ==
    /\ IF account.balance = Zero
       THEN Caught("handlePayLoan")
       ELSE /\ Reduce(payLoan)
            /\ Dispatched("handlePayLoan")
            /\ UNCHANGED <<pending, selected>>
    /\ UNCHANGED <<trace, scriptVars, customer>>

\* onChange of the select: the user picks an option other than the one shown
SelectCurrency(c) ==
    /\ c # Displayed
    /\ selected' = c
    /\ step' = [op |-> "setCurrency"]
    /\ UNCHANGED <<account, prev, last, accepted, pending, trace, scriptVars, customer>>

UINext ==
    \/ \E v \in FieldValues : handleDeposit(v)
    \/ \E v \in FieldValues : handleWithdrawal(v)
    \/ \E v \in FieldValues, p \in PurposeValues : handleRequestLoan(v, p)
    \/ handlePayLoan
    \/ \E c \in Options : SelectCurrency(c)
    \/ \E i \in 1..MaxPending, rate \in Rates : FetchResolve(i, rate)
    \/ \E i \in 1..MaxPending : FetchReject(i)

UISpec == Init /\ [][UINext]_vars

(***************************************************************************)
(* PositiveUISpec: the form used with positive amounts only.               *)
(***************************************************************************)
PositiveValues == {v \in FieldValues : v = Empty \/ v = Zero \/ Gt0(v)}

PositiveUINext ==
    \/ \E v \in PositiveValues : handleDeposit(v)
    \/ \E v \in PositiveValues : handleWithdrawal(v)
    \/ \E v \in PositiveValues, p \in PurposeValues : handleRequestLoan(v, p)
    \/ handlePayLoan
    \/ \E c \in Options : SelectCurrency(c)
    \/ \E i \in 1..MaxPending, rate \in Rates : FetchResolve(i, rate)
    \/ \E i \in 1..MaxPending : FetchReject(i)

PositiveUISpec == Init /\ [][PositiveUINext]_vars

(***************************************************************************)
(* UntouchedSelectSpec: the form used without ever changing the currency   *)
(* select.                                                                 *)
(***************************************************************************)
UntouchedSelectNext ==
    \/ \E v \in FieldValues : handleDeposit(v)
    \/ \E v \in FieldValues : handleWithdrawal(v)
    \/ \E v \in FieldValues, p \in PurposeValues : handleRequestLoan(v, p)
    \/ handlePayLoan
    \/ \E i \in 1..MaxPending, rate \in Rates : FetchResolve(i, rate)
    \/ \E i \in 1..MaxPending : FetchReject(i)

UntouchedSelectSpec == Init /\ [][UntouchedSelectNext]_vars

\* the slice after dispatching the actions of s, in order, from state
RECURSIVE Run(_, _)
Run(state, s) ==
    IF s = <<>> THEN state ELSE Run(accountReducer(state, Head(s)), Tail(s))

TypeOK ==
    /\ account.isLoading \in BOOLEAN
    /\ InRange(account.balance)
    /\ Len(pending) <= MaxPending

(***************************************************************************)
(* Properties.  prev, last and account are the slice before the last run   *)
(* of the reducer, the action it was run with, and the slice it returned.  *)
(***************************************************************************)
KnownTypes ==
    {"account/deposit", "account/withdraw", "account/requestLoan",
     "account/payLoan", "account/convertingCurrency"}

\* C1: requestLoan dispatched while loan > 0 is a no-op: the state returned
\* equals the state given, and dispatching the same request again and again
\* still returns that state.
C1_RejectedLoanIsNoOp ==
    (last.type = "account/requestLoan" /\ Gt0(prev.loan)) =>
        /\ account = prev
        /\ Run(account, <<last, last, last>>) = prev

\* requestLoan(2, "B") was dispatched while the loan 1 for "A" was outstanding
C1_Witness ==
    /\ last = requestLoan(Num(0, 2), "B")
    /\ prev.loan = Num(0, 1)
    /\ prev.loanPurpose = "A"
    /\ account.loan = Num(0, 1)
    /\ account.loanPurpose = "A"

\* C2: requestLoan(amount, purpose) of the exported action creator,
\* dispatched while loan = 0, adds amount to balance, sets loan to amount and
\* loanPurpose to the purpose the caller passed, and leaves isLoading alone.
C2_AcceptedLoan ==
    \A a \in Amounts, p \in Purposes :
        (last = requestLoan(a, p) /\ prev.loan = Zero) =>
            account = [balance |-> Add(prev.balance, a),
                       loan |-> a,
                       loanPurpose |-> p,
                       isLoading |-> prev.isLoading]

\* a loan of 2 for "B" was accepted during a conversion, on a balance of 1
C2_Witness ==
    /\ last = requestLoan(Num(0, 2), "B")
    /\ prev.loan = Zero
    /\ prev.balance = Num(0, 1)
    /\ prev.isLoading
    /\ account.loan = Num(0, 2)
    /\ account.loanPurpose = "B"

\* C3: payLoan, from any state, subtracts loan from balance, sets loan to 0
\* and loanPurpose to "", and leaves isLoading alone, also when the balance
\* is less than the loan.
C3_PayLoan ==
    last.type = "account/payLoan" =>
        account = [balance |-> Sub(prev.balance, prev.loan),
                   loan |-> Zero,
                   loanPurpose |-> "",
                   isLoading |-> prev.isLoading]

\* a loan was repaid out of a balance smaller than the loan
C3_Witness ==
    /\ last.type = "account/payLoan"
    /\ Gt0(prev.loan)
    /\ Gt0(Sub(prev.loan, prev.balance))
    /\ Lt0(account.balance)
    /\ prev.loanPurpose = "A"

\* C4: deposit(amount), from any state, adds amount to balance and sets
\* isLoading to false, leaving loan and loanPurpose unchanged.
C4_Deposit ==
    last.type = "account/deposit" =>
        account = [balance |-> Add(prev.balance, last.payload),
                   loan |-> prev.loan,
                   loanPurpose |-> prev.loanPurpose,
                   isLoading |-> FALSE]

\* a deposit landed while a conversion was shown and a loan was outstanding
C4_Witness ==
    /\ last.type = "account/deposit"
    /\ prev.isLoading
    /\ Gt0(prev.loan)
    /\ account.balance # prev.balance

\* C5: withdraw(amount), from any state, subtracts amount from balance with
\* no balance check (the balance may become negative), leaving loan,
\* loanPurpose and isLoading unchanged.
C5_Withdraw ==
    last.type = "account/withdraw" =>
        account = [balance |-> Sub(prev.balance, last.payload),
                   loan |-> prev.loan,
                   loanPurpose |-> prev.loanPurpose,
                   isLoading |-> prev.isLoading]

\* a withdrawal of more than the balance went through
C5_Witness ==
    /\ last.type = "account/withdraw"
    /\ Gt0(last.payload)
    /\ ~Lt0(prev.balance)
    /\ Lt0(account.balance)
    /\ prev.isLoading

\* C6: an action whose type matches no case of the account transition
\* function is a no-op: the state returned equals the state given in all
\* four fields, for the slice reducer and for the classic reducer.
C6_UnknownActionIsNoOp ==
    last.type \notin KnownTypes =>
        /\ account = prev
        /\ reducer(prev, last) = prev

\* an action of the customer slice reached the account reducer in a state
\* that differs from the initial one in every field
C6_Witness ==
    /\ last = customerAction
    /\ account.balance # Zero
    /\ account.loan # Zero
    /\ account.loanPurpose # ""
    /\ account.isLoading

\* C7: in every reachable state of the account slice, loan is non-negative.
C7_LoanNonNegative == ~Lt0(account.loan)

\* C8: once a requestLoan has been accepted (loan > 0), loan and loanPurpose
\* keep the values of that request in every later state until a payLoan is
\* dispatched, whatever else is dispatched in between.
C8_OneActiveLoan ==
    accepted # NoAction =>
        /\ Gt0(account.loan)
        /\ account.loan = accepted.payload.amount
        /\ account.loanPurpose = accepted.payload.loanPurpose

\* the loan of 1 for "A" is still the one outstanding after a second
\* request, for 2 and "B", was dispatched
C8_Witness ==
    /\ accepted = requestLoan(Num(0, 1), "A")
    /\ last = requestLoan(Num(0, 2), "B")
    /\ account.loan = Num(0, 1)
    /\ account.loanPurpose = "A"

(***************************************************************************)
(* Properties of whole sequences of dispatches, over TraceSpec.            *)
(***************************************************************************)
OnlyDepositWithdraw(s) ==
    \A i \in 1..Len(s) : s[i].type \in {"account/deposit", "account/withdraw"}

\* the sum of the deposited amounts minus the sum of the withdrawn amounts
\* of s, as the exact number hi * 2^53 + lo
RECURSIVE ExactSum(_)
ExactSum(s) ==
    IF s = <<>> THEN Zero
    ELSE LET rest == ExactSum(Tail(s))
             a    == Head(s)
         IN  IF a.type = "account/deposit"
             THEN Num(rest.hi + a.payload.hi, rest.lo + a.payload.lo)
             ELSE Num(rest.hi - a.payload.hi, rest.lo - a.payload.lo)

Permuted(s) ==
    {[i \in 1..Len(s) |-> s[f[i]]] : f \in Permutations(1..Len(s))}

\* C9: for every sequence of deposit and withdraw actions applied from the
\* initial state, the final balance equals the sum of the deposited amounts
\* minus the sum of the withdrawn amounts, and is the same for every
\* permutation of the sequence.
C9_BalanceIsSumInAnyOrder ==
    OnlyDepositWithdraw(trace) =>
        /\ account.balance = ExactSum(trace)
        /\ \A s \in Permuted(trace) : Run(initialState, s).balance = account.balance

\* the slice after the first n dispatches of the trace
StateAt(n) == Run(initialState, SubSeq(trace, 1, n))

\* C10: from any state with loan = 0, requestLoan(amount, purpose) followed
\* at once by payLoan yields loan = 0, loanPurpose = "" and the balance of
\* before the request.
C10_LoanRoundTrip ==
    LET n == Len(trace)
    IN  (/\ n >= 2
         /\ trace[n].type = "account/payLoan"
         /\ trace[n - 1].type = "account/requestLoan"
         /\ StateAt(n - 2).loan = Zero) =>
            /\ account.loan = Zero
            /\ account.loanPurpose = ""
            /\ account.balance = StateAt(n - 2).balance

(***************************************************************************)
(* The scenario of store-v1, over ScriptSpec.                              *)
(***************************************************************************)
\* balance, loan and loanPurpose of a store state
Shown(state) ==
    [balance |-> state.balance, loan |-> state.loan, loanPurpose |-> state.loanPurpose]

ScenarioState(b, l, p) == [balance |-> Num(0, b), loan |-> Num(0, l), loanPurpose |-> p]

\* C11: from the initial state, deposit(500), withdraw(200),
\* requestLoan(100, "Buy a Car"), payLoan() give the balances 500, 300, 400
\* and 300 in turn, with loan = 100 and loanPurpose = "Buy a Car" after the
\* third dispatch and loan = 0 and loanPurpose = "" after the fourth.
C11_Scenario ==
    script = Scenario =>
        LET expected ==
                CASE pc = 0 -> ScenarioState(0, 0, "")
                  [] pc = 1 -> ScenarioState(500, 0, "")
                  [] pc = 2 -> ScenarioState(300, 0, "")
                  [] pc = 3 -> ScenarioState(400, 100, "Buy a Car")
                  [] pc = 4 -> ScenarioState(300, 0, "")
        IN  /\ Shown(account) = expected
            /\ legacy = expected
            /\ ~account.isLoading

\* the script has made its four dispatches
C11_Witness ==
    /\ script = Scenario
    /\ pc = 4
    /\ last = payLoan
    /\ prev.loan = Num(0, 100)
    /\ account.balance = Num(0, 300)
    /\ legacy.balance = Num(0, 300)

(***************************************************************************)
(* The deposit action creator and its thunk, over Spec.                    *)
(***************************************************************************)
\* C12: a deposit in a currency other than USD dispatches convertingCurrency
\* (isLoading becomes true) and leaves its lookup outstanding; when the
\* lookup answers with rate r, the thunk dispatches deposit(r * amount),
\* once: the balance grows by r * amount, isLoading becomes false and the
\* thunk is no longer outstanding.  For amount 500 and rate 1.1 the action
\* dispatched is deposit(550).
C12_DeferredDeposit ==
    [][/\ (step'.op = "deposit" /\ step'.currency # "USD") =>
            /\ last' = [type |-> "account/convertingCurrency"]
            /\ account' = [account EXCEPT !.isLoading = TRUE]
            /\ pending' = Append(pending, [amount |-> step'.amount,
                                           currency |-> step'.currency])
       /\ step'.op = "resolve" =>
            /\ last' = [type |-> "account/deposit",
                        payload |-> Mul(step'.rate, step'.amount)]
            /\ account' = [account EXCEPT
                             !.balance = Add(account.balance,
                                             Mul(step'.rate, step'.amount)),
                             !.isLoading = FALSE]
            /\ \E i \in 1..Len(pending) :
                   /\ pending[i].amount = step'.amount
                   /\ pending' = Remove(pending, i)
       /\ thunk_deposit(Rate11, Num(0, 500)) =
              [type |-> "account/deposit", payload |-> Num(0, 550)]
      ]_vars

\* the lookup of a deposit of 1 EUR answered with rate 2 and 2 was deposited
C12_Witness ==
    /\ step = [op |-> "resolve", amount |-> Num(0, 1), rate |-> Rate(2, 1, 0)]
    /\ prev.isLoading
    /\ ~account.isLoading
    /\ account.balance = Add(prev.balance, Num(0, 2))
    /\ pending = <<>>

\* C13: deposit(amount, "USD") returns the plain action
\* {type: "account/deposit", payload: amount}; dispatching it applies the
\* deposit at once, dispatches no convertingCurrency, issues no lookup and
\* does not set isLoading to true.
C13_UsdDepositIsPlain ==
    [][/\ \A a \in Amounts :
            deposit(a, "USD") = [type |-> "account/deposit", payload |-> a]
       /\ (step'.op = "deposit" /\ step'.currency = "USD") =>
            /\ last' = [type |-> "account/deposit", payload |-> step'.amount]
            /\ account' = [account EXCEPT
                             !.balance = Add(account.balance, step'.amount),
                             !.isLoading = FALSE]
            /\ pending' = pending
      ]_vars

\* deposit(2, "USD") was dispatched and applied with no lookup outstanding
C13_Witness ==
    /\ step = [op |-> "deposit", amount |-> Num(0, 2), currency |-> "USD"]
    /\ last = [type |-> "account/deposit", payload |-> Num(0, 2)]
    /\ account.balance = Add(prev.balance, Num(0, 2))
    /\ ~account.isLoading
    /\ pending = <<>>

(***************************************************************************)
(* isLoading, over Spec.                                                   *)
(***************************************************************************)
\* C14: isLoading becomes true only on convertingCurrency, is false after
\* every deposit action whichever producer dispatched it, and is left as it
\* was by withdraw, requestLoan, payLoan and actions of unknown type.
C14_LoadingMachine ==
    /\ (account.isLoading /\ ~prev.isLoading) =>
           last.type = "account/convertingCurrency"
    /\ last.type = "account/convertingCurrency" => account.isLoading
    /\ last.type = "account/deposit" => ~account.isLoading
    /\ last.type \notin {"account/convertingCurrency", "account/deposit"} =>
           account.isLoading = prev.isLoading

\* a plain USD deposit cleared the flag while a lookup was outstanding
C14_Witness ==
    /\ step.op = "deposit"
    /\ step.currency = "USD"
    /\ last.type = "account/deposit"
    /\ prev.isLoading
    /\ ~account.isLoading
    /\ pending # <<>>

\* C15: convertingCurrency, from any state, sets isLoading to true and
\* leaves balance, loan and loanPurpose unchanged.
C15_ConvertingCurrency ==
    last.type = "account/convertingCurrency" =>
        account = [balance |-> prev.balance,
                   loan |-> prev.loan,
                   loanPurpose |-> prev.loanPurpose,
                   isLoading |-> TRUE]

\* a conversion started on an account with a balance and a loan
C15_Witness ==
    /\ last.type = "account/convertingCurrency"
    /\ ~prev.isLoading
    /\ account.isLoading
    /\ Gt0(account.loan)
    /\ account.loanPurpose = "B"
    /\ account.balance # Zero

\* C16 as stated: isLoading is true in every state in which a currency
\* lookup is outstanding, also when other deposits are dispatched in the
\* meantime.
C16_LoadingWhileOutstanding == pending # <<>> => account.isLoading

\* C16 as amended: isLoading is true from a deferred deposit's
\* convertingCurrency dispatch until the next deposit action is applied,
\* whichever producer dispatched that deposit; nothing else resets it.
C16_LoadingUntilNextDeposit ==
    [][/\ (step'.op = "deposit" /\ step'.currency # "USD") => account'.isLoading
       /\ (account.isLoading /\ ~account'.isLoading) =>
              /\ step'.op # "reject"
              /\ last'.type = "account/deposit"
      ]_vars

\* a withdrawal and a loan request went through during a conversion and
\* the flag is still set
C16_Witness ==
    /\ pending # <<>>
    /\ account.isLoading
    /\ step.op = "dispatch"
    /\ last.type = "account/requestLoan"
    /\ Gt0(account.loan)
    /\ Lt0(account.balance)

C18_ConversionErrorOnFailure ==
    step.op = "reject" =>
        /\ last.type = "account/conversionError"
        /\ ~account.isLoading
        /\ account.balance = prev.balance

RECURSIVE RunClassic(_, _)
RunClassic(state, s) ==
    IF s = <<>> THEN state
    ELSE RunClassic(classicAccountReducer(state, Head(s)), Tail(s))

\* C19: the classic switch reducer and the createSlice reducer, started from
\* initialState and fed the same sequence of actions produced by the action
\* creators, are in equal states (balance, loan, loanPurpose, isLoading)
\* after every step.
C19_ClassicEqualsSlice == RunClassic(initialState, trace) = account

\* the sequence with its requestLoan actions made by the classic creator
\* requestLoan(amount, purpose) instead of the slice's
ClassicForm(s) ==
    [i \in 1..Len(s) |->
        IF s[i].type = "account/requestLoan"
        THEN classicRequestLoan(s[i].payload.amount, s[i].payload.loanPurpose)
        ELSE s[i]]

\* each reducer fed by its own creators: the states agree
OwnCreatorsAgree == RunClassic(initialState, ClassicForm(trace)) = account

\* a value of the shape of the account slice: the four fields and nothing
\* that reports an error
IsNumber(a) == DOMAIN a = {"hi", "lo"} /\ a.hi \in Int /\ a.lo \in Int

IsState(state) ==
    /\ DOMAIN state = {"balance", "loan", "loanPurpose", "isLoading"}
    /\ IsNumber(state.balance)
    /\ IsNumber(state.loan)
    /\ state.isLoading \in BOOLEAN

\* the reducer was run on a request the business rules forbid
LoanWhileLoan == last.type = "account/requestLoan" /\ Gt0(prev.loan)

Overdraw == last.type = "account/withdraw" /\ Less(prev.balance, last.payload)

PayWithoutCover ==
    /\ last.type = "account/payLoan"
    /\ (prev.loan = Zero \/ Less(prev.balance, prev.loan))

\* C20: the reducer never raises for a business-rule violation: requestLoan
\* while loan > 0, withdraw of more than the balance, and payLoan with no
\* loan or with balance < loan each return a state and signal no error.
C20_RuleViolationsReturnState ==
    (step.op = "dispatch" /\ (LoanWhileLoan \/ Overdraw \/ PayWithoutCover)) =>
        /\ IsState(account)
        /\ LoanWhileLoan => account = prev
        /\ Overdraw => account.balance = Sub(prev.balance, last.payload)
        /\ PayWithoutCover =>
               /\ account.balance = Sub(prev.balance, prev.loan)
               /\ account.loan = Zero

\* a loan was paid back out of a balance that did not cover it
C20_Witness ==
    /\ step.op = "dispatch"
    /\ PayWithoutCover
    /\ Gt0(prev.loan)
    /\ Less(prev.balance, prev.loan)
    /\ Lt0(account.balance)
    /\ IsState(account)

LoanRequestWhole ==
    \/ account = prev
    \/ /\ account.balance = Add(prev.balance, last.payload.amount)
       /\ account.loan = last.payload.amount
       /\ account.loanPurpose = last.payload.loanPurpose

LoanPaymentWhole ==
    /\ account.balance = Sub(prev.balance, prev.loan)
    /\ account.loan = Zero
    /\ account.loanPurpose = ""

\* C22: dispatch is run-to-completion: every state between dispatches is
\* the result of whole actions; no state has the loan proceeds in the
\* balance while loan is still 0, or a loan without its purpose.
C22_RunToCompletion ==
    /\ (account.loan = Zero) <=> (account.loanPurpose = "")
    /\ last.type = "account/requestLoan" => LoanRequestWhole
    /\ last.type = "account/payLoan" => LoanPaymentWhole
    /\ (last.type = "account/requestLoan" /\ account.balance # prev.balance) =>
           account.loan # Zero

\* a loan granted between the start of a conversion and its deposit
C22_Witness ==
    /\ pending # <<>>
    /\ step.op = "dispatch"
    /\ last.type = "account/requestLoan"
    /\ prev.loan = Zero
    /\ account.loan = last.payload.amount
    /\ account.balance # prev.balance
    /\ account.loanPurpose = "B"

\* the sequences that have the last action of s at another place
MovedLast(s) ==
    LET n == Len(s)
        r == SubSeq(s, 1, n - 1)
    IN  {SubSeq(r, 1, k) \o <<s[n]>> \o SubSeq(r, k + 1, n - 1) : k \in 0..(n - 1)}

\* C23: while a lookup is outstanding the dispatches of other producers take
\* effect at once, and when the deferred work's deposit is applied the
\* balance is what it would be had that deposit been applied at any other
\* point of the sequence of deposits and withdrawals.
C23_ConvertedDepositCommutes ==
    /\ (pending # <<>> /\ step.op = "dispatch") =>
           account = accountReducer(prev, last)
    /\ (step.op = "resolve" /\ OnlyDepositWithdraw(trace)) =>
           \A t \in MovedLast(trace) :
               Run(initialState, t).balance = account.balance

\* C24: handleWithdrawal dispatches withdraw(amount) only when the amount
\* is non-empty and balance >= amount; otherwise nothing is dispatched and
\* the store is unchanged; a withdrawal made through the handler never
\* leaves the balance below 0.
C24_WithdrawalValidated ==
    [][/\ step'.op = "handleWithdrawal" =>
              IF step'.dispatched
              THEN /\ last'.type = "account/withdraw"
                   /\ Truthy(last'.payload)
                   /\ ~Less(account.balance, last'.payload)
                   /\ account' = accountReducer(account, last')
                   /\ ~Lt0(account'.balance)
              ELSE /\ account' = account
                   /\ last' = last
                   /\ pending' = pending
       /\ step'.op = "handleWithdrawal" =>
              \A v \in FieldValues :
                  ((~Truthy(v) \/ Less(account.balance, v)) /\ handleWithdrawal(v)) =>
                      (account' = account /\ last' = last /\ ~step'.dispatched)
      ]_vars

\* a withdrawal of the whole balance went through; a larger one was refused
\* before it
C24_Witness ==
    /\ step = [op |-> "handleWithdrawal", dispatched |-> TRUE]
    /\ last.type = "account/withdraw"
    /\ last.payload = prev.balance
    /\ Gt0(prev.balance)
    /\ account.balance = Zero

\* C25: the loan guard of handleRequestLoan agrees with the guard of the
\* reducer: every requestLoan action the handler dispatches is accepted by
\* the reducer (loan becomes the requested amount), and the handler
\* dispatches nothing when the reducer would reject (loan > 0).
C25_LoanGuardsAgree ==
    [][step'.op = "handleRequestLoan" =>
           IF step'.dispatched
           THEN /\ last'.type = "account/requestLoan"
                /\ ~Gt0(account.loan)
                /\ account'.loan = last'.payload.amount
                /\ account'.loanPurpose = last'.payload.loanPurpose
                /\ account'.balance = Add(account.balance, last'.payload.amount)
           ELSE /\ account' = account
                /\ last' = last
      ]_vars

\* the form was used for a second loan after the first one was paid back
C25_Witness ==
    /\ step = [op |-> "handleRequestLoan", dispatched |-> TRUE]
    /\ last.type = "account/requestLoan"
    /\ prev.loan = Zero
    /\ Gt0(account.loan)
    /\ account.loan = last.payload.amount
    /\ account.loanPurpose = "B"
    /\ account.isLoading

\* C26: handlePayLoan dispatches payLoan only when the balance is non-zero
\* and there is an active loan (currentLoan != 0); with no active loan it
\* dispatches nothing.
C26_PayLoanNeedsLoan ==
    [][(step'.op = "handlePayLoan" /\ step'.dispatched) =>
           (account.balance # Zero /\ account.loan # Zero)
      ]_vars

\* C27: in the store that combines the account and the customer reducer,
\* an account/* action leaves the customer slice unchanged, and the account
\* slice it produces is the account reducer's value at the account slice
\* alone, whatever the customer slice holds.
C27_AccountActionsKeepCustomer ==
    [][last'.type \in KnownTypes =>
           /\ customer' = customer
           /\ account' = accountReducer(account, last')
      ]_vars

\* a loan granted after a customer was created: the customer is still there
C27_Witness ==
    /\ customer.fullName = "Bob"
    /\ last.type = "account/requestLoan"
    /\ prev.loan = Zero
    /\ Gt0(account.loan)
    /\ account.balance # Zero

\* balance - loan of a slice, as the exact number hi * 2^53 + lo
Net(state) ==
    Num(state.balance.hi - state.loan.hi, state.balance.lo - state.loan.lo)

TransfersOf(s) ==
    SelectSeq(s, LAMBDA a : a.type \in {"account/deposit", "account/withdraw"})

\* C28: in every reachable state balance - loan equals the sum of the
\* deposits applied minus the sum of the withdrawals applied; requestLoan
\* (accepted or rejected) and payLoan never change balance - loan.
C28_Conservation ==
    /\ Net(account) = ExactSum(TransfersOf(trace))
    /\ last.type \in {"account/requestLoan", "account/payLoan"} =>
           Net(account) = Net(prev)

\* C29: in every state reachable through the handlers of AccountOperations
\* with positive amounts, balance >= 0.
C29_BalanceNonNegative == ~Lt0(account.balance)

\* C30: every deposit submitted through handleDeposit while the currency
\* select was never changed is applied at once as a plain account/deposit
\* action, the first one and every later one: none takes the conversion
\* path or sets isLoading.
C30_DefaultCurrencyIsPlain ==
    [][(step'.op = "handleDeposit" /\ step'.dispatched) =>
           /\ last'.type = "account/deposit"
           /\ pending' = pending
           /\ ~account'.isLoading
      ]_vars

\* C31: when requestLoan is only dispatched with amount > 0 and a non-empty
\* purpose, as the form does with positive amounts, every reachable state
\* has loan = 0 if and only if loanPurpose = "".
C31_LoanIffPurpose ==
    /\ (account.loan = Zero) <=> (account.loanPurpose = "")
    /\ last.type = "account/requestLoan" =>
           (Gt0(last.payload.amount) /\ last.payload.loanPurpose # "")

\* a loan with its purpose was paid back and both are cleared
C31_Witness ==
    /\ step = [op |-> "handlePayLoan", dispatched |-> TRUE]
    /\ Gt0(prev.loan)
    /\ prev.loanPurpose = "B"
    /\ account.loan = Zero
    /\ account.loanPurpose = ""

\* C32: each deferred deposit dispatches convertingCurrency once and deposit
\* once when its lookup answers, never when it fails; when all the lookups
\* have settled the balance has gained exactly rate * amount for each one
\* that answered, whatever order they settled in.
C32_EachConversionCreditsOnce ==
    /\ step.op = "deposit" =>
           /\ last = thunk_convertingCurrency
           /\ pending[Len(pending)] = [amount |-> step.amount, currency |-> step.currency]
    /\ step.op = "resolve" =>
           /\ last = thunk_deposit(step.rate, step.amount)
           /\ trace[Len(trace)] = last
    /\ pending = <<>> =>
           /\ account.balance = ExactSum(trace)
           /\ \A s \in Permuted(trace) :
                  Run(initialState, s).balance = account.balance

\* C33: when every outstanding lookup answers and the deferred work is
\* resumed, a non-USD deposit is followed by the application of a converted
\* deposit, and isLoading becomes false again.
C33_ConversionCompletes ==
    /\ (step.op = "deposit") ~> (step.op = "resolve" /\ last.type = "account/deposit")
    /\ account.isLoading ~> ~account.isLoading

\* the converted deposit of the only outstanding lookup was applied
C33_Witness ==
    /\ step.op = "resolve"
    /\ prev.isLoading
    /\ ~account.isLoading
    /\ pending = <<>>
    /\ account.balance = Add(prev.balance, Mul(step.rate, step.amount))
    /\ step.rate = Rate(2, 1, 0)

\* C34: payLoan is idempotent: two payLoan dispatches in a row leave the
\* state of one, and payLoan in a state with loan = 0 leaves balance and
\* loan unchanged.
C34_PayLoanIdempotent ==
    LET n == Len(trace)
    IN  /\ (/\ n >= 2
            /\ trace[n].type = "account/payLoan"
            /\ trace[n - 1].type = "account/payLoan") =>
               account = StateAt(n - 1)
        /\ accountReducer(accountReducer(account, payLoan), payLoan)
               = accountReducer(account, payLoan)
        /\ (last.type = "account/payLoan" /\ prev.loan = Zero) =>
               (account.balance = prev.balance /\ account.loan = prev.loan)

\* a loan was granted and payLoan was dispatched twice
C34_Witness ==
    /\ Len(trace) = 3
    /\ trace[1].type = "account/requestLoan"
    /\ Gt0(StateAt(1).loan)
    /\ trace[2].type = "account/payLoan"
    /\ trace[3].type = "account/payLoan"
    /\ prev.loan = Zero
    /\ account = prev

====
